---- MODULE Spec2Model ----
(***************************************************************************)
(* Bootstrap of the object layer (initObjectLayer) and the recursive       *)
(* cleanup of a directory (cleanupDir) of minio, as a state machine.       *)
(*                                                                         *)
(* A path is a sequence of tokens: a name, or the separator "/".  The      *)
(* string "tmp/c/d" is <<"tmp", "/", "c", "/", "d">>.                      *)
(*                                                                         *)
(* The specifications share the variables and the actions of the walk:     *)
(*   Spec         one initObjectLayer pass over NumDisks backends;         *)
(*   FairSpec     the same pass with every goroutine scheduled;            *)
(*   SpecReinit   passes that follow a successful pass;                    *)
(*   SpecCleanup  repeated cleanupDir calls on one backend, with a         *)
(*                concurrent actor, injected faults and interrupted runs;  *)
(*   SpecPair     the same cleanupDir call on two backends that hold the   *)
(*                same tree;                                               *)
(*   SpecReadDir  readDir on a local directory.                            *)
(***************************************************************************)
EXTENDS Integers, Sequences, FiniteSets, TLC

\* ------------------------------------------------------------------ bounds
NumDisks == 2     \* backends handed to initObjectLayer
MaxFiles == 2     \* leaf files under the temp prefix when cleanupDir is called directly
MaxFaults == 2    \* backend calls that fail by injection, per behaviour
MaxRaces == 1     \* deletions by a concurrent actor, per cleanupDir run
MaxRuns == 2      \* cleanupDir calls on the same root
MaxEntries == 2   \* files in the local directory handed to readDir

Disks == 1..NumDisks

\* ------------------------------------------------------------- error values
nil == "nil"
errVolumeExists == "errVolumeExists"
errDiskNotFound == "errDiskNotFound"
errFileNotFound == "errFileNotFound"
\* Backend conditions the code names nowhere: "any other error".
errVolumeNotFound == "errVolumeNotFound"
errFaultyDisk == "errFaultyDisk"

\* What a backend call may return whatever the backend holds.
FaultErrs == {errDiskNotFound, errFaultyDisk}

\* -------------------------------------------------------------------- paths
slashSeparator == "/"
minioMetaBucket == ".minio"
tmpMetaPrefix == <<"tmp">>

\* strings.HasSuffix(p, slashSeparator)
HasSuffix(p, sep) == Len(p) > 0 /\ p[Len(p)] = sep

\* strings.TrimSuffix(p, slashSeparator)
TrimSuffix(p, sep) == IF HasSuffix(p, sep) THEN SubSeq(p, 1, Len(p) - 1) ELSE p

\* path.Join of the elements: the non-empty ones, each without its trailing
\* separator, with one separator between two of them.
RECURSIVE JoinClean(_)
JoinClean(elem) ==
    IF elem = <<>> THEN <<>>
    ELSE LET h == TrimSuffix(Head(elem), slashSeparator)
             t == JoinClean(Tail(elem))
         IN  IF h = <<>> THEN t
             ELSE IF t = <<>> THEN h
             ELSE h \o <<slashSeparator>> \o t

\* pathJoin: path.Join, keeping the trailing separator of the last element.
pathJoin(elem) ==
    LET trailingSlash == IF elem # <<>> /\ HasSuffix(elem[Len(elem)], slashSeparator)
                         THEN <<slashSeparator>> ELSE <<>>
    IN  JoinClean(elem) \o trailingSlash

\* retainSlash: the path with exactly one trailing separator.
retainSlash(p) == TrimSuffix(p, slashSeparator) \o <<slashSeparator>>

\* The directory holding p: p without its last name ("" for a top-level entry).
Parent(p) ==
    LET q == TrimSuffix(p, slashSeparator)
    IN  IF Len(q) <= 1 THEN <<>> ELSE SubSeq(q, 1, Len(q) - 1)

\* The entry name of p inside Parent(p), with the trailing marker of p.
Base(p) == SubSeq(p, Len(Parent(p)) + 1, Len(p))

IsPrefix(a, b) == Len(a) <= Len(b) /\ SubSeq(b, 1, Len(a)) = a

\* ------------------------------------------------- the backends' name space
TmpDir == <<"tmp", "/">>
SubDir == <<"tmp", "/", "c", "/">>
TmpLeaves == { <<"tmp", "/", "b">>,
               <<"tmp", "/", "c", "/", "d">>,
               <<"tmp", "/", "c", "/", "e">> }
\* A file of the metadata volume that is not under the temp prefix.
OutsideLeaf == <<"format.json">>
AllDirs == {TmpDir, SubDir}

RECURSIVE Ancestors(_)
Ancestors(p) ==
    LET d == Parent(p) IN IF d = <<>> THEN {} ELSE {d} \cup Ancestors(d)

\* A tree of the metadata volume: leaf files, and directory containers that
\* hold every ancestor of a file and of a directory.
IsTree(files, dirs) ==
    /\ \A f \in files : Ancestors(f) \subseteq dirs
    /\ \A d \in dirs : Ancestors(d) \subseteq dirs

Trees(maxFiles) ==
    { t \in [files : SUBSET TmpLeaves, dirs : SUBSET AllDirs] :
        /\ Cardinality(t.files) <= maxFiles
        /\ IsTree(t.files, t.dirs) }

\* A backend: whether the metadata volume exists, and its tree.
NoVolume == [vol |-> FALSE, files |-> {}, dirs |-> {}]
WithVolume(t) == [vol |-> TRUE, files |-> t.files \cup {OutsideLeaf}, dirs |-> t.dirs]

UnderTmp(d) == { f \in d.files : IsPrefix(TmpDir, f) }

\* ------------------------------------------------ the StorageAPI of a backend
\* Every call returns one outcome: the error, the listing, the backend after it.
Outcome(e, ents, d) == [err |-> e, entries |-> ents, disk |-> d]

\* Any call may fail whatever the backend holds (unreachable, faulty, denied).
Faulted(d) == { Outcome(e, <<>>, d) : e \in FaultErrs }

\* MakeVol(volume): creates the volume, or reports that it exists.
MakeVol(d) ==
    IF d.vol THEN { Outcome(errVolumeExists, <<>>, d) }
    ELSE { Outcome(nil, <<>>, [d EXCEPT !.vol = TRUE]) }

\* The immediate children of a directory, each with its trailing marker.
Children(d, dirPath) ==
    { Base(f) : f \in { g \in d.files : Parent(g) = dirPath } }
        \cup { Base(c) : c \in { g \in d.dirs : Parent(g) = dirPath } }

Orders(S) ==
    { s \in [1..Cardinality(S) -> S] : \A i, j \in DOMAIN s : s[i] = s[j] => i = j }

\* ListDir(volume, dirPath): the children in any order, or not-found.
ListDir(d, dirPath) ==
    IF ~d.vol THEN { Outcome(errVolumeNotFound, <<>>, d) }
    ELSE IF dirPath \notin d.dirs THEN { Outcome(errFileNotFound, <<>>, d) }
    ELSE { Outcome(nil, s, d) : s \in Orders(Children(d, dirPath)) }

\* The directory containers left once the empty ancestors of p are removed.
RECURSIVE PruneUp(_, _, _)
PruneUp(files, dirs, p) ==
    LET up == Parent(p)
    IN  IF up = <<>> \/ up \notin dirs THEN dirs
        ELSE IF \E g \in files \cup dirs : Parent(g) = up THEN dirs
        ELSE PruneUp(files, dirs \ {up}, up)

\* What removing the leaf f leaves: the backend keeps the directory
\* containers, or removes those left empty (directories implicit in paths).
Removed(d, f) ==
    LET files == d.files \ {f}
    IN  { [d EXCEPT !.files = files],
          [d EXCEPT !.files = files, !.dirs = PruneUp(files, d.dirs, f)] }

\* DeleteFile(volume, path): removes exactly the leaf, or not-found.
DeleteFile(d, filePath) ==
    IF ~d.vol THEN { Outcome(errVolumeNotFound, <<>>, d) }
    ELSE IF filePath \notin d.files THEN { Outcome(errFileNotFound, <<>>, d) }
    ELSE { Outcome(nil, <<>>, e) : e \in Removed(d, filePath) }

\* -------------------------------------------------------------------- state
VARIABLES
    disk,      \* disk[i]: backend i (volume, files, directory containers)
    pc,        \* pc[i]: where the worker (or the caller of cleanupDir) on backend i is
    next,      \* next[i]: entryPath of the delFunc call about to reach the backend
    stack,     \* stack[i]: the enclosing delFunc frames, [path, entries left]
    ret,       \* ret[i]: what the last cleanupDir call on backend i returned
    calls,     \* calls[i]: the backend calls of the current pass or run, in order
    errs,      \* the errs slice of initObjectLayer
    wg,        \* the counter of the WaitGroup
    cpc,       \* where initObjectLayer is: "spawn", "wait", "returned"; "none": not called
    index,     \* backends the range loop has launched a worker for
    result,    \* what initObjectLayer returned
    faults,    \* injected failures so far
    arg,       \* arg[i]: the dirPath handed to cleanupDir
    runs,      \* cleanupDir calls started on backend 1 (direct calls)
    finished,  \* the workers that returned, in the order they did
    history,   \* the direct runs that ended, in order: [ret, clean, calls]
    snap,      \* the files of backend 1 when the current direct run started
    raced,     \* deletions by the concurrent actor during the current direct run
    writes,    \* the writes to errs so far, in order: [worker, slot]
    fsdir,     \* the local directory handed to readDir: [err, ents]
    listing    \* what readDir returned: [entries, err]

vars == <<disk, pc, next, stack, ret, calls, errs, wg, cpc, index, result,
          faults, arg, finished, runs, history, snap, raced, writes, fsdir, listing>>

bootVars == <<errs, wg, cpc, index, result, finished, writes>>
runVars == <<runs, history, snap, raced>>
lsVars == <<fsdir, listing>>

\* ------------------------------------------------- readDir (posix listing)
\* What os.Lstat reports of a file: its kind, or an error.
Modes == {"regular", "dir", "symlink", "special"}
errNotExist == "errNotExist"
errPermission == "errPermission"
OsErrs == {errNotExist, errPermission}

\* The names ioutil.ReadDir returns, sorted by name.
FileNames == <<"b", "c", "d", "e">>

\* A local directory: the error ioutil.ReadDir gives for it, if any, and its
\* files by name, each with what os.Lstat gives for it.
LocalDirs(maxEntries) ==
    { [err |-> e, ents |-> fs] :
        e \in {nil} \cup OsErrs,
        fs \in UNION { { f \in [1..n -> [name : { FileNames[k] : k \in 1..n },
                                         mode : Modes,
                                         lstat : {nil} \cup OsErrs]] :
                           \A k \in 1..n : f[k].name = FileNames[k] } :
                       n \in 0..maxEntries } }

\* Variant: a directory is appended under its bare name.
RECURSIVE ReadEntriesNoMarker(_)
ReadEntriesNoMarker(files) ==
    IF files = <<>> THEN <<>>
    ELSE LET file == Head(files)
             filename == file.name
             rest == ReadEntriesNoMarker(Tail(files))
         IN  IF file.lstat # nil THEN rest
             ELSE IF file.mode = "regular" THEN << <<filename>> >> \o rest
             ELSE IF file.mode = "dir" THEN << <<filename>> >> \o rest
             ELSE rest

\* The loop of readDir over the files: a file whose Lstat fails is skipped, a
\* regular file gives its name, a directory its name and the separator, and
\* anything else is skipped.
RECURSIVE ReadEntries(_)
ReadEntries(files) ==
    IF files = <<>> THEN <<>>
    ELSE LET file == Head(files)
             filename == file.name
             rest == ReadEntries(Tail(files))
         IN  IF file.lstat # nil THEN rest
             ELSE IF file.mode = "regular" THEN << <<filename>> >> \o rest
             ELSE IF file.mode = "dir" THEN << <<filename, slashSeparator>> >> \o rest
             ELSE rest

\* readDir(dirPath): the error of ioutil.ReadDir with no entry, or the entries.
readDir(d) ==
    IF d.err # nil THEN [entries |-> <<>>, err |-> d.err]
    ELSE [entries |-> ReadEntries(d.ents), err |-> nil]

\* No local directory has been handed to readDir.
NoDir == [err |-> nil, ents |-> <<>>]

\* A backend call as recorded in calls[i].
Call(op, volume, p, e) == [op |-> op, volume |-> volume, path |-> p, err |-> e]

\* Values of ret[i] and of the entries of history besides an error value.
none == "none"
interrupted == "interrupted"

\* readDir has not returned.
NoListing == [entries |-> <<>>, err |-> none]

\* No call of the sequence failed by injection.
NoFault(cs) == \A k \in DOMAIN cs : cs[k].err \notin FaultErrs

\* A direct run as history keeps it: what it returned, whether the backend was
\* healthy and left alone during it, and its backend calls.
Run(e, cs, races) == [ret |-> e, clean |-> NoFault(cs) /\ races = 0, calls |-> cs]

\* ---------------------------------------------------------- error translator
\* toObjectErr(err, bucket, object): the error kind with its context.
toObjectErr(err, bucket, object) == [kind |-> err, bucket |-> bucket, object |-> object]
NoError == [kind |-> nil, bucket |-> "", object |-> <<>>]
Pending == [kind |-> none, bucket |-> "", object |-> <<>>]

\* ------------------------------------------------------------------ cleanupDir
\* delFunc takes the directory branch for a path that ends with the separator.
IsDirPath(entryPath) == HasSuffix(entryPath, slashSeparator)

\* Variant: no listing error is taken for an absent prefix.
ListingIgnoredNever(err) == FALSE

\* Variant: every listing error is taken for an absent prefix.
ListingIgnoredAny(err) == err # nil

\* The listing error delFunc takes for "the prefix never existed".
ListingIgnored(err) == err = errFileNotFound

\* Variant: the root is walked in the form the caller gave it.
RootPathAsGiven(dirPath) == pathJoin(<<dirPath>>)

\* Variant: the root is walked without a trailing separator.
RootPathTrimmed(dirPath) == TrimSuffix(pathJoin(<<dirPath>>), slashSeparator)

\* The first entryPath of a cleanupDir(storage, volume, dirPath) call.
RootPath(dirPath) == retainSlash(pathJoin(<<dirPath>>))

\* The walk between two backend calls: cleanupDir has returned ret, or the
\* delFunc call on next is about to reach the backend under the frames stack.
Returned(e) == [done |-> TRUE, ret |-> e, next |-> <<>>, stack |-> <<>>]
Calling(entryPath, frames) ==
    [done |-> FALSE, ret |-> none, next |-> entryPath, stack |-> frames]

\* Variant: the loop joins the directory and the entry with path.Join, which
\* drops the trailing separator of the entry.
RECURSIVE ResumePlainJoin(_)
ResumePlainJoin(frames) ==
    IF frames = <<>> THEN Returned(nil)
    ELSE LET n == Len(frames)
             top == frames[n]
         IN  IF top.entries = <<>> THEN ResumePlainJoin(SubSeq(frames, 1, n - 1))
             ELSE Calling(JoinClean(<<top.path, Head(top.entries)>>),
                          [frames EXCEPT ![n].entries = Tail(top.entries)])

\* Variant: a loop that has no entry left ends the whole walk.
ResumeReturnsUp(frames) ==
    IF frames = <<>> THEN Returned(nil)
    ELSE LET n == Len(frames)
             top == frames[n]
         IN  IF top.entries = <<>> THEN Returned(nil)
             ELSE Calling(pathJoin(<<top.path, Head(top.entries)>>),
                          [frames EXCEPT ![n].entries = Tail(top.entries)])

\* Variant: the loop calls delFunc on the entry as listed, without the path
\* of its directory.
RECURSIVE ResumeBareEntry(_)
ResumeBareEntry(frames) ==
    IF frames = <<>> THEN Returned(nil)
    ELSE LET n == Len(frames)
             top == frames[n]
         IN  IF top.entries = <<>> THEN ResumeBareEntry(SubSeq(frames, 1, n - 1))
             ELSE Calling(pathJoin(<<Head(top.entries)>>),
                          [frames EXCEPT ![n].entries = Tail(top.entries)])

\* A delFunc call returned nil to the loop of the innermost frame: the loop
\* calls delFunc on its next entry, or ends and returns nil in its turn.
RECURSIVE Resume(_)
Resume(frames) ==
    IF frames = <<>> THEN Returned(nil)
    ELSE LET n == Len(frames)
             top == frames[n]
         IN  IF top.entries = <<>> THEN Resume(SubSeq(frames, 1, n - 1))
             ELSE Calling(pathJoin(<<top.path, Head(top.entries)>>),
                          [frames EXCEPT ![n].entries = Tail(top.entries)])

\* The backend call of delFunc(entryPath).
DelFuncCall(d, entryPath) ==
    IF IsDirPath(entryPath) THEN ListDir(d, entryPath) ELSE DeleteFile(d, entryPath)

DelFuncOp(entryPath) == IF IsDirPath(entryPath) THEN "ListDir" ELSE "DeleteFile"

\* Variant: the loop over the entries returns after its first entry.
DelFuncFirstOnly(entryPath, frames, o) ==
    IF ~IsDirPath(entryPath)
    THEN IF o.err = nil THEN Resume(frames) ELSE Returned(o.err)
    ELSE IF o.err # nil
         THEN IF ListingIgnored(o.err) THEN Resume(frames) ELSE Returned(o.err)
         ELSE Resume(Append(frames,
                  [path |-> entryPath,
                   entries |-> IF o.entries = <<>> THEN <<>> ELSE <<Head(o.entries)>>]))

\* Variant: the loop goes on with its next entry after a DeleteFile failure.
DelFuncContinue(entryPath, frames, o) ==
    IF ~IsDirPath(entryPath)
    THEN Resume(frames)
    ELSE IF o.err # nil
         THEN IF ListingIgnored(o.err) THEN Resume(frames) ELSE Returned(o.err)
         ELSE Resume(Append(frames, [path |-> entryPath, entries |-> o.entries]))

\* delFunc(entryPath) once its backend call returned o, under the frames.
DelFunc(entryPath, frames, o) ==
    IF ~IsDirPath(entryPath)
    THEN IF o.err = nil THEN Resume(frames) ELSE Returned(o.err)
    ELSE IF o.err # nil
         THEN IF ListingIgnored(o.err) THEN Resume(frames) ELSE Returned(o.err)
         ELSE Resume(Append(frames, [path |-> entryPath, entries |-> o.entries]))

\* The outcomes a call may have now: what the backend holds decides, or the
\* call fails by injection while failures are left.
Outcomes(natural, d) == natural \cup (IF faults < MaxFaults THEN Faulted(d) ELSE {})
Inject(o) == IF o.err \in FaultErrs THEN faults + 1 ELSE faults

\* ------------------------------------------------------------ initObjectLayer
\* errs = make([]error, len(storageDisks))
MakeErrs(n) == [i \in 1..n |-> nil]

\* Variants: every MakeVol error is fatal; none is.
MakeVolFatalAny(err) == err # nil
MakeVolFatalNever(err) == FALSE

\* Variant: a volume that exists already is a failure of the backend.
MakeVolFatalExists(err) == err # nil /\ err # errDiskNotFound

\* The MakeVol errors after which the worker gives up the backend.
MakeVolFatal(err) == err # nil /\ err # errVolumeExists /\ err # errDiskNotFound

\* Variants: the wait is over at once; the wait is over with the first worker.
WaitOverNow == TRUE
WaitOverAny == wg < NumDisks

\* wg.Wait() returns.
WaitOver == wg = 0

\* Variants: the scan keeps the last error; the scan starts at the second slot.
FirstErrorLast(es) ==
    IF \A i \in DOMAIN es : es[i] = nil THEN NoError
    ELSE LET last == CHOOSE i \in DOMAIN es :
                         es[i] # nil /\ \A j \in DOMAIN es : j > i => es[j] = nil
         IN  toObjectErr(es[last], minioMetaBucket, tmpMetaPrefix)
FirstErrorFromSecond(es) ==
    IF \A i \in DOMAIN es : i > 1 => es[i] = nil THEN NoError
    ELSE LET first == CHOOSE i \in DOMAIN es :
                          i > 1 /\ es[i] # nil /\ \A j \in DOMAIN es : 1 < j /\ j < i => es[j] = nil
         IN  toObjectErr(es[first], minioMetaBucket, tmpMetaPrefix)

\* The scan of errs: the first error, translated, or none.
FirstError(es) ==
    IF \A i \in DOMAIN es : es[i] = nil THEN NoError
    ELSE LET first == CHOOSE i \in DOMAIN es :
                          es[i] # nil /\ \A j \in DOMAIN es : j < i => es[j] = nil
         IN  toObjectErr(es[first], minioMetaBucket, tmpMetaPrefix)

\* Variant: the worker reads the loop variable index of the closure it runs in.
SlotShared(i) == index

\* The index parameter of the worker of backend i: go func(index, disk) is
\* called with the index of its own iteration.
Slot(i) == i

\* A write errs[slot] = ... by the worker of backend i.
Write(i, slot) == [worker |-> i, slot |-> slot]

\* Variant: the worker calls MakeVol again after errDiskNotFound.
WorkerMakeVolRetry(i) ==
    /\ pc[i] = "makevol"
    /\ \E o \in Outcomes(MakeVol(disk[i]), disk[i]) :
        /\ disk' = [disk EXCEPT ![i] = o.disk]
        /\ faults' = Inject(o)
        /\ calls' = [calls EXCEPT ![i] = Append(@, Call("MakeVol", minioMetaBucket, <<>>, o.err))]
        /\ IF MakeVolFatal(o.err)
           THEN /\ errs' = [errs EXCEPT ![Slot(i)] = o.err]
                /\ writes' = Append(writes, Write(i, Slot(i)))
                /\ pc' = [pc EXCEPT ![i] = "done"]
                /\ wg' = wg - 1
                /\ finished' = Append(finished, i)
                /\ UNCHANGED <<next, stack, arg>>
           ELSE IF o.err = errDiskNotFound
           THEN UNCHANGED <<pc, arg, next, stack, errs, wg, finished, writes>>
           ELSE /\ pc' = [pc EXCEPT ![i] = "cleanup"]
                /\ arg' = [arg EXCEPT ![i] = tmpMetaPrefix]
                /\ next' = [next EXCEPT ![i] = RootPath(tmpMetaPrefix)]
                /\ stack' = [stack EXCEPT ![i] = <<>>]
                /\ UNCHANGED <<errs, wg, finished, writes>>
    /\ UNCHANGED <<ret, cpc, index, result>>
    /\ UNCHANGED runVars
    /\ UNCHANGED lsVars

\* Variant: the worker that gives up a backend returns without wg.Done().
WorkerMakeVolNoDone(i) ==
    /\ pc[i] = "makevol"
    /\ \E o \in Outcomes(MakeVol(disk[i]), disk[i]) :
        /\ disk' = [disk EXCEPT ![i] = o.disk]
        /\ faults' = Inject(o)
        /\ calls' = [calls EXCEPT ![i] = Append(@, Call("MakeVol", minioMetaBucket, <<>>, o.err))]
        /\ IF MakeVolFatal(o.err)
           THEN /\ errs' = [errs EXCEPT ![Slot(i)] = o.err]
                /\ writes' = Append(writes, Write(i, Slot(i)))
                /\ pc' = [pc EXCEPT ![i] = "done"]
                /\ finished' = Append(finished, i)
                /\ UNCHANGED <<next, stack, arg, wg>>
           ELSE /\ pc' = [pc EXCEPT ![i] = "cleanup"]
                /\ arg' = [arg EXCEPT ![i] = tmpMetaPrefix]
                /\ next' = [next EXCEPT ![i] = RootPath(tmpMetaPrefix)]
                /\ stack' = [stack EXCEPT ![i] = <<>>]
                /\ UNCHANGED <<errs, wg, finished, writes>>
    /\ UNCHANGED <<ret, cpc, index, result>>
    /\ UNCHANGED runVars
    /\ UNCHANGED lsVars

\* The range loop launches the worker of the next backend: wg.Add(1); go func.
Spawn ==
    /\ cpc = "spawn"
    /\ index < NumDisks
    /\ wg' = wg + 1
    /\ index' = index + 1
    /\ pc' = [pc EXCEPT ![index + 1] = "makevol"]
    /\ cpc' = IF index + 1 = NumDisks THEN "wait" ELSE "spawn"
    /\ UNCHANGED <<disk, next, stack, ret, calls, errs, result, faults, arg, finished, writes>>
    /\ UNCHANGED runVars
    /\ UNCHANGED lsVars

\* Worker i: disk.MakeVol(minioMetaBucket), and what follows up to the
\* next backend call; a worker that returns runs its deferred wg.Done().
WorkerMakeVol(i) ==
    /\ pc[i] = "makevol"
    /\ \E o \in Outcomes(MakeVol(disk[i]), disk[i]) :
        /\ disk' = [disk EXCEPT ![i] = o.disk]
        /\ faults' = Inject(o)
        /\ calls' = [calls EXCEPT ![i] = Append(@, Call("MakeVol", minioMetaBucket, <<>>, o.err))]
        /\ IF MakeVolFatal(o.err)
           THEN /\ errs' = [errs EXCEPT ![Slot(i)] = o.err]
                /\ writes' = Append(writes, Write(i, Slot(i)))
                /\ pc' = [pc EXCEPT ![i] = "done"]
                /\ wg' = wg - 1
                /\ finished' = Append(finished, i)
                /\ UNCHANGED <<next, stack, arg>>
           ELSE /\ pc' = [pc EXCEPT ![i] = "cleanup"]
                /\ arg' = [arg EXCEPT ![i] = tmpMetaPrefix]
                /\ next' = [next EXCEPT ![i] = RootPath(tmpMetaPrefix)]
                /\ stack' = [stack EXCEPT ![i] = <<>>]
                /\ UNCHANGED <<errs, wg, finished, writes>>
    /\ UNCHANGED <<ret, cpc, index, result>>
    /\ UNCHANGED runVars
    /\ UNCHANGED lsVars

\* One backend call of the cleanupDir walk on backend i, and what follows up
\* to the next one; when cleanupDir returns, a worker records the result in
\* its slot of errs and returns (the deferred wg.Done()), and a direct caller
\* has its result.
CleanupStep(i) ==
    /\ pc[i] = "cleanup"
    /\ \E o \in Outcomes(DelFuncCall(disk[i], next[i]), disk[i]) :
        LET w == DelFunc(next[i], stack[i], o)
            cs == Append(calls[i], Call(DelFuncOp(next[i]), minioMetaBucket, next[i], o.err))
        IN  /\ disk' = [disk EXCEPT ![i] = o.disk]
            /\ faults' = Inject(o)
            /\ calls' = [calls EXCEPT ![i] = cs]
            /\ next' = [next EXCEPT ![i] = w.next]
            /\ stack' = [stack EXCEPT ![i] = w.stack]
            /\ IF ~w.done
               THEN UNCHANGED <<pc, ret, errs, wg, finished, history, writes>>
               ELSE /\ ret' = [ret EXCEPT ![i] = w.ret]
                    /\ IF cpc = "none"
                       THEN /\ pc' = [pc EXCEPT ![i] = "returned"]
                            /\ history' = Append(history, Run(w.ret, cs, raced))
                            /\ UNCHANGED <<errs, wg, finished, writes>>
                       ELSE /\ pc' = [pc EXCEPT ![i] = "done"]
                            /\ errs' = [errs EXCEPT ![Slot(i)] = w.ret]
                            /\ writes' = Append(writes, Write(i, Slot(i)))
                            /\ wg' = wg - 1
                            /\ finished' = Append(finished, i)
                            /\ UNCHANGED history
    /\ UNCHANGED <<cpc, index, result, arg, runs, snap, raced>>
    /\ UNCHANGED lsVars

\* wg.Wait() returns, errs is scanned and initObjectLayer returns.
WaitAndReturn ==
    /\ cpc = "wait"
    /\ WaitOver
    /\ result' = FirstError(errs)
    /\ cpc' = "returned"
    /\ UNCHANGED <<disk, pc, next, stack, ret, calls, errs, wg, index, faults, arg, finished, writes>>
    /\ UNCHANGED runVars
    /\ UNCHANGED lsVars

\* The backends of a pass of initObjectLayer: a fresh disk, or a metadata
\* volume left by an earlier start, with nothing under the temp prefix, a
\* file under it, or a file in a directory under it.
BootTrees ==
    { [files |-> {}, dirs |-> {}],
      [files |-> {<<"tmp", "/", "b">>}, dirs |-> {TmpDir}],
      [files |-> {<<"tmp", "/", "c", "/", "d">>}, dirs |-> {TmpDir, SubDir}] }
BootDisks == {NoVolume} \cup { WithVolume(t) : t \in BootTrees }

Init ==
    /\ disk \in [Disks -> BootDisks]
    /\ pc = [i \in Disks |-> "idle"]
    /\ next = [i \in Disks |-> <<>>]
    /\ stack = [i \in Disks |-> <<>>]
    /\ ret = [i \in Disks |-> none]
    /\ calls = [i \in Disks |-> <<>>]
    /\ errs = MakeErrs(NumDisks)
    /\ wg = 0
    /\ cpc = "spawn"
    /\ index = 0
    /\ result = Pending
    /\ faults = 0
    /\ arg = [i \in Disks |-> <<>>]
    /\ finished = <<>>
    /\ runs = 0
    /\ history = <<>>
    /\ snap = {}
    /\ raced = 0
    /\ writes = <<>>
    /\ fsdir = NoDir
    /\ listing = NoListing

Next ==
    \/ Spawn
    \/ \E i \in Disks : WorkerMakeVol(i)
    \/ \E i \in Disks : CleanupStep(i)
    \/ WaitAndReturn

Spec == Init /\ [][Next]_vars

\* The backends of a pass whose end is awaited: a fresh disk, or a volume
\* with a file in a directory under the temp prefix.
FairDisks ==
    { NoVolume,
      WithVolume([files |-> {<<"tmp", "/", "c", "/", "d">>}, dirs |-> {TmpDir, SubDir}]) }

InitFair == Init /\ disk \in [Disks -> FairDisks]

\* A pass in which every backend call returns and every goroutine that can
\* take a step is scheduled in the end.
FairSpec ==
    /\ InitFair
    /\ [][Next]_vars
    /\ WF_vars(Spawn)
    /\ \A i \in Disks : WF_vars(WorkerMakeVol(i))
    /\ \A i \in Disks : WF_vars(CleanupStep(i))
    /\ WF_vars(WaitAndReturn)

\* --------------------------------------------------------- a pass after a pass
\* The server starts again on the backends as a successful pass left them:
\* initObjectLayer is called anew, with a new WaitGroup and a new errs.
Restart ==
    /\ cpc = "returned"
    /\ result = NoError
    /\ runs + 1 < MaxRuns
    /\ runs' = runs + 1
    /\ pc' = [i \in Disks |-> "idle"]
    /\ next' = [i \in Disks |-> <<>>]
    /\ stack' = [i \in Disks |-> <<>>]
    /\ ret' = [i \in Disks |-> none]
    /\ calls' = [i \in Disks |-> <<>>]
    /\ arg' = [i \in Disks |-> <<>>]
    /\ errs' = MakeErrs(NumDisks)
    /\ wg' = 0
    /\ cpc' = "spawn"
    /\ index' = 0
    /\ result' = Pending
    /\ finished' = <<>>
    /\ writes' = <<>>
    /\ UNCHANGED <<disk, faults, history, snap, raced>>
    /\ UNCHANGED lsVars

NextReinit ==
    \/ Next
    \/ Restart

SpecReinit == Init /\ [][NextReinit]_vars

\* ------------------------------------------------- cleanupDir called directly
\* The backend the direct calls run on.
Target == 1

\* The forms of the root a caller hands over: "tmp" and "tmp/".
RootForms == {tmpMetaPrefix, TmpDir}

\* A caller calls cleanupDir(storage, minioMetaBucket, dirPath) on the target,
\* after the earlier call returned or was interrupted.
StartRun ==
    /\ cpc = "none"
    /\ pc[Target] \in {"idle", "returned", "crashed"}
    /\ runs < MaxRuns
    /\ \E dirPath \in RootForms :
        /\ arg' = [arg EXCEPT ![Target] = dirPath]
        /\ next' = [next EXCEPT ![Target] = RootPath(dirPath)]
    /\ pc' = [pc EXCEPT ![Target] = "cleanup"]
    /\ stack' = [stack EXCEPT ![Target] = <<>>]
    /\ ret' = [ret EXCEPT ![Target] = none]
    /\ calls' = [calls EXCEPT ![Target] = <<>>]
    /\ runs' = runs + 1
    /\ snap' = disk[Target].files
    /\ raced' = 0
    /\ UNCHANGED <<disk, faults, history>>
    /\ UNCHANGED bootVars
    /\ UNCHANGED lsVars

\* The process stops in the middle of a walk: the call never returns.
Interrupt ==
    /\ cpc = "none"
    /\ pc[Target] = "cleanup"
    /\ pc' = [pc EXCEPT ![Target] = "crashed"]
    /\ history' = Append(history, Run(interrupted, calls[Target], raced))
    /\ UNCHANGED <<disk, next, stack, ret, calls, faults, arg, runs, snap, raced>>
    /\ UNCHANGED bootVars
    /\ UNCHANGED lsVars

\* Another actor (a concurrent cleanup) removes a leaf under the temp prefix
\* while the walk is under way.
Rival ==
    /\ cpc = "none"
    /\ pc[Target] = "cleanup"
    /\ raced < MaxRaces
    /\ \E f \in UnderTmp(disk[Target]) : \E d \in Removed(disk[Target], f) :
        disk' = [disk EXCEPT ![Target] = d]
    /\ raced' = raced + 1
    /\ UNCHANGED <<pc, next, stack, ret, calls, faults, arg, runs, history, snap>>
    /\ UNCHANGED bootVars
    /\ UNCHANGED lsVars

InitCleanup ==
    /\ disk \in { [i \in Disks |-> IF i = Target THEN WithVolume(t) ELSE NoVolume] :
                    t \in Trees(MaxFiles) }
    /\ pc = [i \in Disks |-> "idle"]
    /\ next = [i \in Disks |-> <<>>]
    /\ stack = [i \in Disks |-> <<>>]
    /\ ret = [i \in Disks |-> none]
    /\ calls = [i \in Disks |-> <<>>]
    /\ errs = MakeErrs(NumDisks)
    /\ wg = 0
    /\ cpc = "none"
    /\ index = 0
    /\ result = Pending
    /\ faults = 0
    /\ arg = [i \in Disks |-> <<>>]
    /\ finished = <<>>
    /\ runs = 0
    /\ history = <<>>
    /\ snap = {}
    /\ raced = 0
    /\ writes = <<>>
    /\ fsdir = NoDir
    /\ listing = NoListing

NextCleanup ==
    \/ StartRun
    \/ CleanupStep(Target)
    \/ Interrupt
    \/ Rival

SpecCleanup == InitCleanup /\ [][NextCleanup]_vars

\* ------------------------------------- the same cleanupDir call on two backends
\* Two backends that hold the same tree and on which no call fails: each is
\* free to return its listings in an order of its own.
Pair == {Target, Target + 1}

\* A caller calls cleanupDir(storage, minioMetaBucket, dirPath) on backend i.
StartOn(i) ==
    /\ cpc = "none"
    /\ pc[i] = "idle"
    /\ \E dirPath \in RootForms :
        /\ arg' = [arg EXCEPT ![i] = dirPath]
        /\ next' = [next EXCEPT ![i] = RootPath(dirPath)]
    /\ pc' = [pc EXCEPT ![i] = "cleanup"]
    /\ stack' = [stack EXCEPT ![i] = <<>>]
    /\ UNCHANGED <<disk, ret, calls, faults>>
    /\ UNCHANGED bootVars
    /\ UNCHANGED runVars
    /\ UNCHANGED lsVars

InitPair ==
    /\ disk \in { [i \in Disks |-> IF i \in Pair THEN WithVolume(t) ELSE NoVolume] :
                    t \in Trees(MaxFiles) }
    /\ pc = [i \in Disks |-> "idle"]
    /\ next = [i \in Disks |-> <<>>]
    /\ stack = [i \in Disks |-> <<>>]
    /\ ret = [i \in Disks |-> none]
    /\ calls = [i \in Disks |-> <<>>]
    /\ errs = MakeErrs(NumDisks)
    /\ wg = 0
    /\ cpc = "none"
    /\ index = 0
    /\ result = Pending
    /\ faults = MaxFaults
    /\ arg = [i \in Disks |-> <<>>]
    /\ finished = <<>>
    /\ runs = 0
    /\ history = <<>>
    /\ snap = {}
    /\ raced = 0
    /\ writes = <<>>
    /\ fsdir = NoDir
    /\ listing = NoListing

NextPair ==
    \/ \E i \in Pair : StartOn(i)
    \/ \E i \in Pair : CleanupStep(i)

SpecPair == InitPair /\ [][NextPair]_vars

\* ------------------------------------------------------- readDir called alone
\* readDir(dirPath) is called on the local directory and returns.
ReadDirCall ==
    /\ listing = NoListing
    /\ listing' = readDir(fsdir)
    /\ UNCHANGED <<disk, pc, next, stack, ret, calls, faults, arg, fsdir>>
    /\ UNCHANGED bootVars
    /\ UNCHANGED runVars

InitReadDir ==
    /\ disk = [i \in Disks |-> NoVolume]
    /\ pc = [i \in Disks |-> "idle"]
    /\ next = [i \in Disks |-> <<>>]
    /\ stack = [i \in Disks |-> <<>>]
    /\ ret = [i \in Disks |-> none]
    /\ calls = [i \in Disks |-> <<>>]
    /\ errs = MakeErrs(NumDisks)
    /\ wg = 0
    /\ cpc = "none"
    /\ index = 0
    /\ result = Pending
    /\ faults = 0
    /\ arg = [i \in Disks |-> <<>>]
    /\ finished = <<>>
    /\ runs = 0
    /\ history = <<>>
    /\ snap = {}
    /\ raced = 0
    /\ writes = <<>>
    /\ fsdir \in LocalDirs(MaxEntries)
    /\ listing = NoListing

NextReadDir == ReadDirCall

SpecReadDir == InitReadDir /\ [][NextReadDir]_vars

\* ===================================================================== claims
\* What the worker of backend i got from MakeVol, once it has called it.
Called(i) == calls[i] # <<>>
MakeVolErr(i) == calls[i][1].err
Absorbed == {nil, errVolumeExists, errDiskNotFound}
HardFailed(i) == Called(i) /\ MakeVolErr(i) \notin Absorbed

\* The cleanup of backend i has started: its root has been listed.
CleanupRan(i) == Len(calls[i]) >= 2 /\ calls[i][2].op = "ListDir"

\* The backend calls of cleanupDir on backend i in this pass.
WalkCalls(i) == { k \in DOMAIN calls[i] : calls[i][k].op \in {"ListDir", "DeleteFile"} }

\* C1: when initObjectLayer returns an error, it is the translated error of
\* the lowest-indexed backend whose slot of errs is not nil, whichever worker
\* returned first.
C1_FirstFailure ==
    (cpc = "returned" /\ result # NoError) =>
        \E i \in DOMAIN errs :
            /\ errs[i] # nil
            /\ \A j \in DOMAIN errs : j < i => errs[j] = nil
            /\ result = toObjectErr(errs[i], minioMetaBucket, tmpMetaPrefix)

\* Two backends failed with different errors, the higher-indexed one first,
\* and the error of the lower-indexed one was returned.
C1_Witness ==
    /\ cpc = "returned"
    /\ \E i, j \in Disks :
        /\ i < j
        /\ errs[i] # nil /\ errs[j] # nil /\ errs[i] # errs[j]
        /\ \A h \in Disks : h < i => errs[h] = nil
        /\ \E a, b \in DOMAIN finished : a < b /\ finished[a] = j /\ finished[b] = i
        /\ result.kind = errs[i]

\* C2: when initObjectLayer returns, every backend has had its MakeVol call
\* and, unless its own MakeVol failed hard, its cleanup, whatever failed on
\* the other backends; with one backend failing MakeVol hard and the others
\* healthy, that backend's error is returned and the cleanup of every other
\* backend has run to its end.
C2_FanOutIsolation ==
    cpc = "returned" =>
        /\ \A i \in Disks : Called(i) /\ (HardFailed(i) \/ CleanupRan(i))
        /\ \A i \in Disks :
            (HardFailed(i) /\ \A j \in Disks \ {i} : NoFault(calls[j])) =>
                /\ result = toObjectErr(MakeVolErr(i), minioMetaBucket, tmpMetaPrefix)
                /\ \A j \in Disks \ {i} : CleanupRan(j) /\ ret[j] = nil

\* One backend failed MakeVol hard before any other worker had called its
\* backend, and a healthy backend had a file deleted by its cleanup.
C2_Witness ==
    /\ cpc = "returned"
    /\ \E i \in Disks :
        /\ HardFailed(i)
        /\ finished[1] = i
        /\ \A j \in Disks \ {i} : NoFault(calls[j])
        /\ \E j \in Disks \ {i} : \E k \in DOMAIN calls[j] :
            calls[j][k].op = "DeleteFile" /\ calls[j][k].err = nil

\* C3: initObjectLayer has a result only once every worker has returned.
C3_JoinBarrier ==
    /\ result # Pending => cpc = "returned"
    /\ cpc = "returned" =>
        /\ \A i \in Disks : pc[i] = "done"
        /\ wg = 0
        /\ Len(finished) = NumDisks

\* A worker failed first, the others went on to the end of their walk, and
\* only then did the call return.
C3_Witness ==
    /\ cpc = "returned"
    /\ errs[finished[1]] # nil
    /\ \A i \in Disks \ {finished[1]} : CleanupRan(i) /\ ret[i] # none

\* C4: a worker whose MakeVol reported the volume as existing, or the backend
\* as unreachable, runs cleanupDir all the same, and when that cleanup
\* succeeds its slot of errs is nil.
C4_NonFatalAbsorbed ==
    \A i \in Disks :
        (Called(i) /\ MakeVolErr(i) \in {errVolumeExists, errDiskNotFound}) =>
            /\ pc[i] \in {"cleanup", "done"}
            /\ pc[i] = "done" => CleanupRan(i) /\ ret[i] # none /\ errs[i] = ret[i]
            /\ ret[i] = nil => errs[i] = nil

\* One backend reported its volume as existing, another was unreachable at
\* MakeVol, and both cleanups succeeded.
C4_Witness ==
    \E i, j \in Disks :
        /\ pc[i] = "done" /\ pc[j] = "done"
        /\ MakeVolErr(i) = errVolumeExists /\ MakeVolErr(j) = errDiskNotFound
        /\ ret[i] = nil /\ ret[j] = nil
        /\ errs[i] = nil /\ errs[j] = nil

\* C5: a MakeVol error other than already-exists and unreachable is recorded
\* in the slot of the backend, and the backend gets no ListDir and no
\* DeleteFile call in this pass.
C5_HardFailureSkipsCleanup ==
    \A i \in Disks :
        HardFailed(i) =>
            /\ errs[i] = MakeVolErr(i)
            /\ WalkCalls(i) = {}
            /\ pc[i] = "done"
            /\ ret[i] = none

\* The call returned after a backend holding a file under the temp prefix
\* failed MakeVol hard: the file is still there.
C5_Witness ==
    /\ cpc = "returned"
    /\ \E i \in Disks : HardFailed(i) /\ UnderTmp(disk[i]) # {}

\* C6: errs has one slot per backend, and initObjectLayer returns no error
\* exactly when every slot is nil, that is when every backend's MakeVol was
\* ok, already-exists or unreachable and its cleanup succeeded.
C6_AggregatedOutcome ==
    /\ DOMAIN errs = Disks
    /\ cpc = "returned" =>
        /\ result = NoError <=> \A i \in Disks : errs[i] = nil
        /\ \A i \in Disks :
            errs[i] = nil <=> (MakeVolErr(i) \in Absorbed /\ ret[i] = nil)

\* The call returned an error with the first slot alone not nil.
C6_Witness ==
    /\ cpc = "returned"
    /\ errs[1] # nil
    /\ \A i \in Disks \ {1} : errs[i] = nil
    /\ result.kind = errs[1]

\* ------------------------------------------------- claims about cleanupDir
\* The calls of the current direct run, and the run before it.
Cs == calls[Target]
Ended == pc[Target] = "returned"
Before == history[Len(history) - 1]
Current == history[Len(history)]

NotFoundListing(c) == c.op = "ListDir" /\ c.err = errFileNotFound
Deleted(c) == c.op = "DeleteFile" /\ c.err = nil

\* C7: a directory that ListDir reports as not found, the root or one reached
\* during the walk, is taken as already gone: the walk goes on with what is
\* left, the error is not returned, and a root that does not exist gives
\* success with no DeleteFile call.
C7_RaceTolerance ==
    /\ (Cs # <<>> /\ NotFoundListing(Cs[Len(Cs)]) /\ pc[Target] # "crashed") =>
        (pc[Target] = "cleanup" \/ (Ended /\ ret[Target] = nil))
    /\ (Cs # <<>> /\ NotFoundListing(Cs[1])) =>
        (Ended /\ ret[Target] = nil /\ Len(Cs) = 1)
    /\ (Ended /\ ret[Target] # nil) =>
        (ret[Target] = Cs[Len(Cs)].err /\ ~NotFoundListing(Cs[Len(Cs)]))

\* A directory listed by the root had gone when the walk reached it; the walk
\* went on, deleted a file and returned success.
C7_Witness ==
    /\ Ended /\ ret[Target] = nil
    /\ \E k \in DOMAIN Cs :
        /\ k > 1 /\ k < Len(Cs)
        /\ NotFoundListing(Cs[k])
        /\ Deleted(Cs[Len(Cs)])

\* C8: on a healthy backend that nobody else writes, a first cleanupDir
\* succeeds, and a second one on the same root succeeds and leaves the files
\* of the backend as the first one left them.
C8_Idempotence ==
    (Ended /\ Len(history) >= 2 /\ Before.ret # interrupted
           /\ Before.clean /\ Current.clean) =>
        /\ Before.ret = nil
        /\ ret[Target] = nil
        /\ disk[Target].files = snap
        /\ \A k \in DOMAIN Cs : ~Deleted(Cs[k])

\* The first run deleted files and the second one walked the directories the
\* backend kept, both on a healthy backend.
C8_Witness ==
    /\ Ended /\ Len(history) = 2
    /\ Before.clean /\ Current.clean
    /\ \E k \in DOMAIN Before.calls : Deleted(Before.calls[k])
    /\ Len(Cs) >= 2
    /\ ret[Target] = nil

\* C9: after a run that was interrupted or that failed, having deleted some of
\* the leaves, a later run on a healthy backend that nobody else writes
\* returns success and leaves no leaf under the root.
C9_CrashRestart ==
    (Ended /\ Len(history) >= 2 /\ Before.ret # nil /\ Current.clean) =>
        /\ ret[Target] = nil
        /\ UnderTmp(disk[Target]) = {}

\* The earlier run was interrupted after it deleted a leaf, leaves were left,
\* and the later run deleted them.
C9_Witness ==
    /\ Ended /\ Len(history) = 2
    /\ Before.ret = interrupted
    /\ \E k \in DOMAIN Before.calls : Deleted(Before.calls[k])
    /\ { f \in snap : IsPrefix(TmpDir, f) } # {}
    /\ Current.clean
    /\ UnderTmp(disk[Target]) = {}

\* C10: a leaf that was listed and that another actor removed before the
\* DeleteFile call, so that the backend reports it as not found, does not make
\* cleanupDir fail.
C10_DeleteRaceAbsorbed ==
    \A k \in DOMAIN Cs :
        (Cs[k].op = "DeleteFile" /\ Cs[k].err = errFileNotFound /\ Ended) =>
            ret[Target] = nil

\* The leaves under the temp prefix when the current run started, and the
\* paths the current run has handed to DeleteFile.
LeavesAtStart == { f \in snap : IsPrefix(TmpDir, f) }
DeleteCalls == { k \in DOMAIN Cs : Cs[k].op = "DeleteFile" }
DeletePaths == { Cs[k].path : k \in DeleteCalls }
AllSucceeded == \A k \in DOMAIN Cs : Cs[k].err = nil

\* C11: DeleteFile is never called with a path that ends with the separator
\* or that names a directory, and a run in which no backend call fails, on a
\* backend nobody else writes, returns success having called DeleteFile once
\* on each leaf that was under the root, on nothing else, and leaves no leaf.
C11_RecursiveCorrectness ==
    /\ \A k \in DeleteCalls :
        /\ ~IsDirPath(Cs[k].path)
        /\ \A d \in AllDirs : Cs[k].path # TrimSuffix(d, slashSeparator)
    /\ (Ended /\ AllSucceeded /\ raced = 0) =>
        /\ ret[Target] = nil
        /\ DeletePaths = LeavesAtStart
        /\ \A j, k \in DeleteCalls : Cs[j].path = Cs[k].path => j = k
        /\ UnderTmp(disk[Target]) = {}

\* A tree with a file and a directory holding a file was walked with no
\* failure: the directory was listed and both files were deleted.
C11_Witness ==
    /\ Ended /\ AllSucceeded /\ raced = 0
    /\ LeavesAtStart = { <<"tmp", "/", "b">>, <<"tmp", "/", "c", "/", "d">> }
    /\ \E k \in DOMAIN Cs : Cs[k].op = "ListDir" /\ Cs[k].path = SubDir
    /\ DeletePaths = LeavesAtStart

\* The paths whose DeleteFile succeeded on backend i.
DeletedOn(i) == { calls[i][k].path : k \in { h \in DOMAIN calls[i] : Deleted(calls[i][h]) } }

\* C12: two cleanupDir calls on backends that hold the same tree and on which
\* no call fails return the same result, success, and delete the same set of
\* paths, whatever order each backend lists its entries in.
C12_OrderIndependence ==
    (\A i \in Pair : pc[i] = "returned") =>
        \A i, j \in Pair :
            /\ ret[i] = nil
            /\ ret[i] = ret[j]
            /\ DeletedOn(i) = DeletedOn(j)
            /\ disk[i].files = disk[j].files

\* Both calls returned after the two backends listed the same entries in
\* different orders: the same files were deleted in different orders.
C12_Witness ==
    /\ \A i \in Pair : pc[i] = "returned"
    /\ \E i, j \in Pair :
        /\ arg[i] = arg[j]
        /\ Cardinality(DeletedOn(i)) >= 2
        /\ \E h, k \in DOMAIN calls[i] :
            /\ h < k /\ Deleted(calls[i][h]) /\ Deleted(calls[i][k])
            /\ \E m, n \in DOMAIN calls[j] :
                /\ m < n
                /\ calls[j][m] = calls[i][k]
                /\ calls[j][n] = calls[i][h]

\* A backend call whose failure cleanupDir does not absorb.
Failure(c) == c.err # nil /\ ~NotFoundListing(c)

\* C13: a ListDir failure other than not-found, or a DeleteFile failure, is
\* the last backend call of the run: cleanupDir has returned, with that error
\* as it is.
C13_FailFast ==
    \A k \in DOMAIN Cs :
        Failure(Cs[k]) =>
            /\ k = Len(Cs)
            /\ Ended
            /\ ret[Target] = Cs[k].err

\* A DeleteFile failed and cleanupDir returned its error, with another leaf
\* still under the root that it never visited.
C13_Witness ==
    /\ Ended
    /\ Cs[Len(Cs)].op = "DeleteFile" /\ Cs[Len(Cs)].err = errFaultyDisk
    /\ ret[Target] = errFaultyDisk
    /\ \E f \in UnderTmp(disk[Target]) : f \notin { Cs[k].path : k \in DOMAIN Cs }

\* C14: whichever form of the root the caller gave, the first backend call of
\* cleanupDir is ListDir on the root with one trailing separator, and no
\* DeleteFile call is made on the root, in either form.
C14_RootNormalization ==
    /\ Cs # <<>> =>
        /\ Cs[1].op = "ListDir"
        /\ Cs[1].path = TmpDir
        /\ Cs[1].path = TrimSuffix(arg[Target], slashSeparator) \o <<slashSeparator>>
    /\ \A k \in DeleteCalls : Cs[k].path \notin RootForms

\* The caller gave the root without a trailing separator; it was listed under
\* its directory form and the walk went on to delete a file.
C14_Witness ==
    /\ arg[Target] = tmpMetaPrefix
    /\ ~IsDirPath(arg[Target])
    /\ Ended
    /\ Cs[1].op = "ListDir" /\ Cs[1].path = TmpDir /\ Cs[1].err = nil
    /\ \E k \in DOMAIN Cs : Deleted(Cs[k])

\* ------------------------------------------ claims about the slots of errs
\* C15: every write to errs is made by a worker into the slot of its own
\* index, no slot is written twice, a worker writes when it returns and not
\* before, and initObjectLayer has its result, read from errs, only when every
\* slot has had its write.
C15_SingleWriter ==
    /\ \A k \in DOMAIN writes : writes[k].slot = writes[k].worker
    /\ \A h, k \in DOMAIN writes : writes[h].slot = writes[k].slot => h = k
    /\ \A i \in Disks : (\E k \in DOMAIN writes : writes[k].worker = i) <=> pc[i] = "done"
    /\ result # Pending =>
        /\ \A i \in Disks : \E k \in DOMAIN writes : writes[k].slot = i
        /\ \A i \in Disks : pc[i] = "done"

\* The worker of the last backend wrote its slot before the worker of the
\* first one, while that one was still running, and the result was read after
\* both.
C15_Witness ==
    /\ result # Pending
    /\ Len(writes) = NumDisks
    /\ writes[1] = Write(NumDisks, NumDisks)
    /\ writes[Len(writes)] = Write(1, 1)
    /\ errs[1] # nil /\ errs[NumDisks] # nil

\* The MakeVol calls backend i received in this pass.
MakeVolCalls(i) == { k \in DOMAIN calls[i] : calls[i][k].op = "MakeVol" }

\* C16: a backend that has received a call in a pass received MakeVol first
\* and once only, so each of its ListDir and DeleteFile calls came after its
\* MakeVol had returned; when the pass returns every backend has had its one
\* MakeVol call.
C16_MakeVolFirstOnce ==
    /\ \A i \in Disks :
        Called(i) =>
            /\ calls[i][1].op = "MakeVol"
            /\ MakeVolCalls(i) = {1}
            /\ \A k \in WalkCalls(i) : k > 1
    /\ \A i \in Disks : pc[i] \in {"cleanup", "done"} => Called(i)
    /\ cpc = "returned" => \A i \in Disks : Cardinality(MakeVolCalls(i)) = 1

\* The last backend got MakeVol, a listing and a deletion, after errDiskNotFound
\* from MakeVol, before the first backend received any call.
C16_Witness ==
    /\ ~Called(1)
    /\ Called(NumDisks)
    /\ MakeVolErr(NumDisks) = errDiskNotFound
    /\ Len(calls[NumDisks]) >= 3
    /\ \E k \in WalkCalls(NumDisks) : calls[NumDisks][k].op = "DeleteFile"

\* C17: when every backend call returns, every worker returns and
\* initObjectLayer returns; and no walk calls the backend twice on the same
\* directory or leaf.
C17_Termination ==
    /\ <>(cpc = "returned" /\ \A i \in Disks : pc[i] = "done")
    /\ [](\A i \in Disks : \A h, k \in WalkCalls(i) :
            calls[i][h].path = calls[i][k].path => h = k)

\* initObjectLayer returned after a walk that listed a directory under the
\* root and deleted the file in it.
C17_Witness ==
    /\ cpc = "returned"
    /\ \A i \in Disks : pc[i] = "done"
    /\ \E i \in Disks :
        /\ \E k \in WalkCalls(i) : calls[i][k].op = "ListDir" /\ calls[i][k].path = SubDir
        /\ \E k \in WalkCalls(i) : Deleted(calls[i][k])

\* ------------------------------------------------ claims about a second pass
\* The pass under way follows a pass that returned success.
SecondPass == runs >= 1
HealthyPass == \A i \in Disks : NoFault(calls[i])

\* C18: a pass that follows a successful pass, and in which no backend call
\* fails by a fault of the backend, finds every metadata volume in place,
\* returns success and deletes nothing.
C18_Reinitialization ==
    (SecondPass /\ cpc = "returned" /\ HealthyPass) =>
        /\ result = NoError
        /\ \A i \in Disks : MakeVolErr(i) = errVolumeExists
        /\ \A i \in Disks : \A k \in DOMAIN calls[i] : calls[i][k].op # "DeleteFile"
        /\ \A i \in Disks : UnderTmp(disk[i]) = {}

\* The first pass created a volume on one backend and deleted a file on
\* another, which kept its directories; the second pass listed them and
\* returned success.
C18_Witness ==
    /\ SecondPass /\ cpc = "returned" /\ HealthyPass
    /\ result = NoError
    /\ \E i, j \in Disks :
        /\ disk[i].dirs = {}
        /\ Len(calls[i]) = 2 /\ NotFoundListing(calls[i][2])
        /\ SubDir \in disk[j].dirs
        /\ \E k \in WalkCalls(j) : calls[j][k].op = "ListDir" /\ calls[j][k].path = SubDir
                                      /\ calls[j][k].err = nil

\* ------------------------------------------- claims about what a run leaves
\* C19 as stated: once cleanupDir has returned, on a backend nobody else
\* writes, the leaves under the root are all gone or all there as before the
\* call.
C19_AtomicDiscard ==
    (Ended /\ raced = 0) =>
        \/ UnderTmp(disk[Target]) = {}
        \/ UnderTmp(disk[Target]) = LeavesAtStart

\* C19 amended: once cleanupDir has returned, the leaves under the root are
\* among those that were there before the call, and none is left when it
\* returned success; after an error some of them may be left.
C19_DiscardOrSubset ==
    Ended =>
        /\ UnderTmp(disk[Target]) \subseteq LeavesAtStart
        /\ ret[Target] = nil => UnderTmp(disk[Target]) = {}
        /\ UnderTmp(disk[Target]) # {} => ret[Target] # nil

\* cleanupDir deleted a leaf, failed on the next one and returned the error:
\* some of the leaves are left, with nobody else writing.
C19_Witness ==
    /\ Ended /\ raced = 0
    /\ ret[Target] # nil
    /\ \E k \in DOMAIN Cs : Deleted(Cs[k])
    /\ UnderTmp(disk[Target]) # {}
    /\ UnderTmp(disk[Target]) # LeavesAtStart
    /\ UnderTmp(disk[Target]) \subseteq LeavesAtStart

\* ------------------------------------------------------ claims about readDir
\* The files of the local directory that a listing names.
Listed(f) == f.lstat = nil /\ f.mode \in {"regular", "dir"}
Kept == SelectSeq(fsdir.ents, Listed)

\* C20: readDir of a directory that cannot be read returns the error and no
\* entry; of a readable one it returns no error and, in the order of the
\* files, the bare name of each regular file and the name followed by one
\* separator of each directory, with nothing for a symlink, a special file or
\* a file whose Lstat fails.
C20_EntryMarkers ==
    listing # NoListing =>
        /\ fsdir.err # nil => (listing.err = fsdir.err /\ listing.entries = <<>>)
        /\ fsdir.err = nil =>
            /\ listing.err = nil
            /\ Len(listing.entries) = Len(Kept)
            /\ \A k \in DOMAIN Kept :
                /\ Kept[k].mode = "regular" => listing.entries[k] = <<Kept[k].name>>
                /\ Kept[k].mode = "dir" =>
                    /\ listing.entries[k] = <<Kept[k].name, slashSeparator>>
                    /\ IsDirPath(listing.entries[k])
                    /\ ~IsDirPath(TrimSuffix(listing.entries[k], slashSeparator))
            /\ \A k \in DOMAIN listing.entries :
                IsDirPath(listing.entries[k]) <=> Kept[k].mode = "dir"

\* A readable directory held a directory and a file that is not listed (a
\* symlink, a special file or one whose Lstat failed): the listing is the
\* directory alone, with its marker.
C20_Witness ==
    /\ listing # NoListing
    /\ fsdir.err = nil
    /\ Len(fsdir.ents) = 2
    /\ \E k \in DOMAIN fsdir.ents : ~Listed(fsdir.ents[k])
    /\ \E k \in DOMAIN fsdir.ents :
        /\ Listed(fsdir.ents[k]) /\ fsdir.ents[k].mode = "dir"
        /\ listing.entries = << <<fsdir.ents[k].name, slashSeparator>> >>

\* ------------------------------------------- claims about the frame of a run
\* A step in which cleanupDir on backend i made a backend call, and the call.
WalkStep(i) == Len(calls'[i]) = Len(calls[i]) + 1
StepCall(i) == calls'[i][Len(calls'[i])]

\* What is under the directory d on a backend.
Inside(b, d) == { g \in b.files \cup b.dirs : g # d /\ IsPrefix(d, g) }

====
